---- MODULE Spec2Model ----
(***************************************************************************)
(* Model of the RTSP client (src/src/rtsp.rs) and of the RTP/H.264         *)
(* depacketizer (src/src/rtp.rs).                                          *)
(*                                                                         *)
(* Text is modelled as a sequence of tokens: every separator the code      *)
(* searches for ("\r\n", ": ", ":", ";", "=", "-") is a token of its own,  *)
(* decimal numbers are runs of digit tokens, every other token is a piece  *)
(* of text holding none of the separators.  Bytes are the integers 0..255. *)
(***************************************************************************)
EXTENDS Integers, Sequences, FiniteSets, TLC

VARIABLES
    \* ---- struct Rtsp
    response_ok, server_addr_rtp, client_port_rtp, response_txt, cseq,
    transport, track, id,
    \* ---- position of the client inside send, and its environment
    pc,          \* "idle" | "reading" (request written, response awaited) | "panicked"
    method,      \* method of the send in progress / of the last send
    conn,        \* "open" | "closed": the peer has closed the TCP connection
    sock,        \* bytes the TCP stream holds for the client, not yet read
    retries,     \* WouldBlock answers try_read_buf gave during the send
    \* ---- what an observer of the client sees
    wire,        \* the last request written to the TCP stream
    nwritten,    \* number of requests written to the TCP stream
    nsends,      \* number of send calls started
    result,      \* outcome of the last send: "none" | "Ok" | "Err" | "panic"
    setup_ok_seen, \* some SETUP response contained "200 OK"
    teardowns,   \* number of TEARDOWN sends that have ended
    \* ---- struct Rtp
    decoder, buf_rtp, buf_temp, buf_sps, buf_fragments, buf_all,
    is_sps_found, is_start_decoding, is_fragment_start, is_fragment_end,
    \* ---- position of the depacketizer and what an observer sees
    rtp_pc,      \* "run" | "panicked"
    npackets,    \* number of datagrams received
    hist,        \* the last HistLen datagrams received, oldest first
    last_op,     \* "none" | "connect" | "get_rtp" | "get_rtp_err" | "try_decode"
    ret,         \* return value of the last call
    decoded,     \* the bytes passed to the decoder by the last decode call
    ncalls,      \* number of decoder.decode calls
    fed_all,     \* concatenation of all the bytes passed to the decoder
    seen_sps,    \* an SPS datagram has been received
    seen_sps_pps \* an SPS and afterwards a PPS datagram have been received

rtsp_vars == <<response_ok, server_addr_rtp, client_port_rtp, response_txt, cseq,
               transport, track, id, pc, method, conn, wire, nwritten, nsends,
               result, setup_ok_seen, teardowns, sock, retries>>

rtp_vars == <<decoder, buf_rtp, buf_temp, buf_sps, buf_fragments, buf_all,
              is_sps_found, is_start_decoding, is_fragment_start, is_fragment_end,
              rtp_pc, npackets, hist, last_op, ret, decoded, ncalls, fed_all,
              seen_sps, seen_sps_pps>>

vars == <<rtsp_vars, rtp_vars>>

\* ------------------------------------------------------------------ bounds
MaxSends == 3
MaxPackets == 5
MaxPacketsLong == 6
MaxPacketsErr == 4
MaxSendsShort == 2
MaxRetries == 2
MaxPacketsNri == 3
HistLen == 4

\* ------------------------------------------------------- Option<T> values
None == <<>>
Some(x) == <<x>>

\* ------------------------------------------------------------ text helpers
CRLF == "\r\n"
COLSP == ": "
Digits == <<"0", "1", "2", "3", "4", "5", "6", "7", "8", "9">>
DigitSet == {Digits[i] : i \in 1..10}
DigitValue(t) == (CHOOSE i \in 1..10 : Digits[i] = t) - 1

\* format!("{}", n) of an unsigned integer
RECURSIVE ToDecimal(_)
ToDecimal(n) ==
    IF n < 10 THEN <<Digits[n + 1]>>
    ELSE ToDecimal(n \div 10) \o <<Digits[(n % 10) + 1]>>

RECURSIVE DecimalValue(_)
DecimalValue(s) ==
    IF Len(s) = 0 THEN 0
    ELSE 10 * DecimalValue(SubSeq(s, 1, Len(s) - 1)) + DigitValue(s[Len(s)])

U16Max == 65535

\* str::parse::<u16>: Some(value) or None
ParseU16(s) ==
    IF Len(s) > 0 /\ Len(s) <= 6 /\ (\A i \in 1..Len(s) : s[i] \in DigitSet)
       /\ DecimalValue(s) <= U16Max
    THEN Some(DecimalValue(s))
    ELSE None

\* str::split(sep): the pieces between the occurrences of sep, at least one
RECURSIVE SplitOn(_, _)
SplitOn(s, sep) ==
    IF \E i \in 1..Len(s) : s[i] = sep
    THEN LET i == CHOOSE k \in 1..Len(s) :
                     s[k] = sep /\ \A j \in 1..(k - 1) : s[j] # sep
         IN  <<SubSeq(s, 1, i - 1)>> \o SplitOn(SubSeq(s, i + 1, Len(s)), sep)
    ELSE <<s>>

\* str::lines(): split on line ends, a final empty piece is not a line
Lines(txt) ==
    LET parts == SplitOn(txt, CRLF)
    IN  IF parts[Len(parts)] = <<>> THEN SubSeq(parts, 1, Len(parts) - 1)
        ELSE parts

\* a split at the last blank line instead of the first
SplitOnceBlank_Last(txt) ==
    IF \E i \in 1..(Len(txt) - 1) : txt[i] = CRLF /\ txt[i + 1] = CRLF
    THEN LET i == CHOOSE k \in 1..(Len(txt) - 1) :
                     /\ txt[k] = CRLF /\ txt[k + 1] = CRLF
                     /\ \A j \in (k + 1)..(Len(txt) - 1) : ~(txt[j] = CRLF /\ txt[j + 1] = CRLF)
         IN  Some(<<SubSeq(txt, 1, i - 1), SubSeq(txt, i + 2, Len(txt))>>)
    ELSE None

\* str::split_once("\r\n\r\n"): None, or Some(<<before, after>>) at the first one
SplitOnceBlank(txt) ==
    IF \E i \in 1..(Len(txt) - 1) : txt[i] = CRLF /\ txt[i + 1] = CRLF
    THEN LET i == CHOOSE k \in 1..(Len(txt) - 1) :
                     /\ txt[k] = CRLF /\ txt[k + 1] = CRLF
                     /\ \A j \in 1..(k - 1) : ~(txt[j] = CRLF /\ txt[j + 1] = CRLF)
         IN  Some(<<SubSeq(txt, 1, i - 1), SubSeq(txt, i + 2, Len(txt))>>)
    ELSE None

\* str::contains(c) for a separator character c
Contains(s, c) == \E i \in 1..Len(s) : s[i] = c
ContainsColon(s) == \E i \in 1..Len(s) : s[i] \in {":", COLSP}

\* HashMap built by collect() from a sequence of <<key, value>> pairs, and get()
HashGet(pairs, key) ==
    IF \E i \in 1..Len(pairs) : pairs[i][1] = key
    THEN LET i == CHOOSE k \in 1..Len(pairs) :
                     pairs[k][1] = key /\ \A j \in (k + 1)..Len(pairs) : pairs[j][1] # key
         IN  Some(pairs[i][2])
    ELSE None


\* ------------------------------------------------------------ RTSP client
Methods == {"OPTIONS", "DESCRIBE", "SETUP", "PLAY", "TEARDOWN"}

\* the address Url::socket_addrs resolved, kept in both fields by Rtsp::new
server_addr_rtsp == [ip |-> "10.0.0.1", port |-> 554]
tcp_addr == server_addr_rtsp

\* Display of a SocketAddr: ip:port
FormatAddr(a) == <<a.ip, ":">> \o ToDecimal(a.port)

\* the client ports Rtsp::new is given: the default and the largest u16
ClientPorts == {4588, U16Max}

\* self.transport as send builds it for SETUP
TransportHeader(p, p1) ==
    <<"Transport", COLSP, "RTP/AVP/UDP", ";", "unicast", ";", "client_port", "=">>
    \o ToDecimal(p) \o <<"-">> \o ToDecimal(p1) \o <<CRLF>>

\* self.track as send builds it for SETUP
TrackSetup == <<"/trackID=0", CRLF>>

\* a request text that leaves the Session header out
Request_NoSession(method_str, trk, n, trans, sid) ==
    <<method_str, " ">> \o FormatAddr(tcp_addr) \o trk
    \o <<" RTSP/1.0", CRLF, "CSeq", COLSP>> \o ToDecimal(n) \o <<CRLF>>
    \o trans \o <<CRLF>>

\* the request text of send
Request(method_str, trk, n, trans, sid) ==
    <<method_str, " ">> \o FormatAddr(tcp_addr) \o trk
    \o <<" RTSP/1.0", CRLF, "CSeq", COLSP>> \o ToDecimal(n) \o <<CRLF>>
    \o trans \o sid \o <<CRLF>>

\* ---- responses a server sends
StatusOk == <<"RTSP/1.0 ", "200 OK", CRLF>>
StatusNotValid == <<"RTSP/1.0 ", "455 Method Not Valid in This State", CRLF>>
StatusUnsupported == <<"RTSP/1.0 ", "461 Unsupported Transport", CRLF>>
HdrCSeq == <<"CSeq", COLSP, "1", CRLF>>
HdrTransport(ports) ==
    <<"Transport", COLSP, "RTP/AVP", ";", "unicast", ";",
      "client_port", "=", "4", "5", "8", "8", "-", "4", "5", "8", "9">>
    \o ports \o <<";", "ssrc", "=", "DEADBEEF", ";", "source", "=", "10.0.0.9", CRLF>>
ServerPort6600 == <<";", "server_port", "=", "6", "6", "0", "0", "-", "6", "6", "0", "1">>
ServerPort6970 == <<";", "server_port", "=", "6", "9", "7", "0", "-", "6", "9", "7", "1">>
ServerPort70000 == <<";", "server_port", "=", "7", "0", "0", "0", "0", "-", "7", "0", "0", "0", "1">>
HdrSessionTimeout == <<"Session", COLSP, "12345678", ";", "timeout", "=", "6", "0", CRLF>>
HdrSession42 == <<"Session", COLSP, "42", CRLF>>
HdrNoSpace == <<"Content-Length", ":", "0", CRLF>>

RespOk == StatusOk \o HdrCSeq \o <<CRLF>>
RespNotValid == StatusNotValid \o HdrCSeq \o <<CRLF>>
RespDescribeOk ==
    StatusOk \o HdrCSeq \o <<"Content-Type", COLSP, "application/sdp", CRLF, CRLF>>
    \o <<"v=0", CRLF, "m=video 0 RTP/AVP 96", CRLF, CRLF, "a=control", ":", "trackID=0", CRLF>>
RespDescribeCut == StatusOk \o HdrCSeq
RespSetupTimeout == StatusOk \o HdrCSeq \o HdrTransport(ServerPort6600) \o HdrSessionTimeout \o <<CRLF>>
RespSetup42 == StatusOk \o HdrCSeq \o HdrTransport(ServerPort6970) \o HdrSession42 \o <<CRLF>>
RespSetupNoServerPort == StatusOk \o HdrCSeq \o HdrTransport(<<>>) \o HdrSession42 \o <<CRLF>>
RespSetupNoSession == StatusOk \o HdrCSeq \o HdrTransport(ServerPort6600) \o <<CRLF>>
RespSetupBadPort == StatusOk \o HdrCSeq \o HdrTransport(ServerPort70000) \o HdrSession42 \o <<CRLF>>
RespSetupNoSpace == StatusOk \o HdrCSeq \o HdrNoSpace \o HdrTransport(ServerPort6600) \o HdrSession42 \o <<CRLF>>
RespSetupRefused == StatusUnsupported \o HdrCSeq \o HdrTransport(ServerPort6600) \o HdrSession42 \o <<CRLF>>

\* what try_read_buf can deliver as n > 0 bytes after a request of the method
Responses(m) ==
    CASE m = "DESCRIBE" -> {RespDescribeOk, RespNotValid, RespDescribeCut}
      [] m = "SETUP"    -> {RespSetupTimeout, RespSetup42, RespSetupNoServerPort,
                            RespSetupNoSession, RespSetupBadPort, RespSetupNoSpace,
                            RespSetupRefused, RespOk, RespNotValid}
      [] OTHER          -> {RespOk, RespNotValid}

\* a status test that takes any answer for a 200
Contains200_AnyStatus(response) == Len(response) > 0

\* (&response).contains("200 OK")
Contains200(response) == Contains(response, "200 OK")

\* parse_describe: panics (unwrap) when the response has no blank line
parse_describe_panics(txt) == SplitOnceBlank(txt) = None

\* the SDP lines parse_describe keeps
sdp_fields(txt) == Lines(SplitOnceBlank(txt)[1][2])

\* setup_hash of parse_setup: <<panics, pairs>>
setup_hash(txt) ==
    LET lines == SelectSeq(Lines(txt), ContainsColon)
        v == [i \in 1..Len(lines) |-> SplitOn(lines[i], COLSP)]
    IN  IF \E i \in 1..Len(v) : Len(v[i]) < 2 THEN <<TRUE, <<>>>>
        ELSE <<FALSE, [i \in 1..Len(v) |-> <<v[i][1], v[i][2]>>]>>

\* transport_hash of parse_setup, from the value of the Transport header
transport_hash(value) ==
    LET parts == SelectSeq(SplitOn(value, ";"), LAMBDA s : Contains(s, "="))
        v == [i \in 1..Len(parts) |-> SplitOn(parts[i], "=")]
    IN  [i \in 1..Len(v) |-> <<v[i][1], v[i][2]>>]

\* the Session header parse_setup stores
SessionHeader(value) == <<"Session", COLSP>> \o value

\* a server_port range taken at its second port
ServerRtpPort_Second(range) == SplitOn(range, "-")[Len(SplitOn(range, "-"))]

\* the part of the server_port value parse_setup parses: server_port[0]
ServerRtpPort(range) == SplitOn(range, "-")[1]

\* parse_setup: the fields it leaves behind and whether it panicked
parse_setup(txt, old_addr, old_id) ==
    LET sh == setup_hash(txt)
        stay == [panicked |-> TRUE, server_addr_rtp |-> old_addr, id |-> old_id]
    IN  IF sh[1] THEN stay
        ELSE LET tv == HashGet(sh[2], <<"Transport">>)
             IN  IF tv = None THEN stay
                 ELSE LET sp == HashGet(transport_hash(tv[1]), <<"server_port">>)
                      IN  IF sp = None THEN stay
                          ELSE LET port == ParseU16(ServerRtpPort(sp[1]))
                                   sess == HashGet(sh[2], <<"Session">>)
                                   addr == Some([ip |-> server_addr_rtsp.ip, port |-> port[1]])
                               IN  IF port = None THEN stay
                                   ELSE IF sess = None
                                        THEN [panicked |-> TRUE, server_addr_rtp |-> addr,
                                              id |-> old_id]
                                        ELSE [panicked |-> FALSE, server_addr_rtp |-> addr,
                                              id |-> SessionHeader(sess[1])]

InitRtsp ==
    /\ response_ok = FALSE
    /\ server_addr_rtp = None
    /\ client_port_rtp \in ClientPorts
    /\ response_txt = <<>>
    /\ cseq = 1
    /\ transport = <<>>
    /\ track = <<>>
    /\ id = <<>>
    /\ pc = "idle"
    /\ method = "none"
    /\ conn = "open"
    /\ wire = <<>>
    /\ nwritten = 0
    /\ nsends = 0
    /\ result = "none"
    /\ setup_ok_seen = FALSE
    /\ teardowns = 0
    /\ sock = <<>>
    /\ retries = 0

\* client_port_rtp + 1 overflows u16: a panic with overflow checks, else wraps
SetupOverflows == client_port_rtp + 1 > U16Max

\* send, up to and including write_all
SendWrite(method_in) ==
    /\ pc = "idle"
    /\ nsends < MaxSends
    /\ nsends' = nsends + 1
    /\ method' = method_in
    /\ \E overflow_checks \in BOOLEAN, write_ok \in BOOLEAN :
        IF method_in = "SETUP" /\ SetupOverflows /\ overflow_checks
        THEN /\ pc' = "panicked"
             /\ result' = "panic"
             /\ UNCHANGED <<transport, track, wire, nwritten, teardowns>>
        ELSE LET tr == CASE method_in = "SETUP" ->
                              TransportHeader(client_port_rtp,
                                              (client_port_rtp + 1) % (U16Max + 1))
                         [] method_in = "PLAY" -> <<>>
                         [] OTHER -> transport
                 tk == CASE method_in = "SETUP" -> TrackSetup
                         [] method_in = "PLAY" -> <<>>
                         [] OTHER -> track
             IN  /\ transport' = tr
                 /\ track' = tk
                 /\ IF write_ok
                    THEN /\ wire' = Request(method_in, tk, cseq, tr, id)
                         /\ nwritten' = nwritten + 1
                         /\ pc' = "reading"
                         /\ UNCHANGED <<result, teardowns>>
                    ELSE /\ result' = "Err"
                         /\ pc' = "idle"
                         /\ teardowns' = IF method_in = "TEARDOWN" THEN teardowns + 1
                                         ELSE teardowns
                         /\ UNCHANGED <<wire, nwritten>>
    /\ retries' = 0
    /\ UNCHANGED <<response_ok, server_addr_rtp, client_port_rtp, response_txt, cseq,
                   id, conn, setup_ok_seen, sock>>
    /\ UNCHANGED rtp_vars

\* send: readable() or try_read_buf fails with an error other than WouldBlock
ReadErr ==
    /\ pc = "reading"
    /\ pc' = "idle"
    /\ result' = "Err"
    /\ teardowns' = IF method = "TEARDOWN" THEN teardowns + 1 ELSE teardowns
    /\ UNCHANGED <<response_ok, server_addr_rtp, client_port_rtp, response_txt, cseq,
                   transport, track, id, method, conn, wire, nwritten, nsends,
                   setup_ok_seen, sock, retries>>
    /\ UNCHANGED rtp_vars

\* a counter advanced by two
NextCSeq_Twice(n) == n + 2

\* self.cseq += 1
NextCSeq(n) == n + 1

\* send, from the read that ends the loop to the return: response is what was
\* read (empty for Ok(0), the peer having closed), closes: the peer closes after
\* it; what the stream holds afterwards is for the caller to say
ReadDone(response, closes) ==
    /\ pc = "reading"
    /\ cseq' = NextCSeq(cseq)
    /\ response_ok' = Contains200(response)
    /\ response_txt' = response
    /\ conn' = IF response = <<>> \/ closes THEN "closed" ELSE conn
    /\ setup_ok_seen' = (setup_ok_seen \/ (method = "SETUP" /\ Contains200(response)))
    /\ teardowns' = IF method = "TEARDOWN" THEN teardowns + 1 ELSE teardowns
    /\ CASE method = "DESCRIBE" ->
              /\ pc' = IF parse_describe_panics(response) THEN "panicked" ELSE "idle"
              /\ result' = IF parse_describe_panics(response) THEN "panic" ELSE "Ok"
              /\ UNCHANGED <<server_addr_rtp, id>>
         [] method = "SETUP" ->
              LET r == parse_setup(response, server_addr_rtp, id)
              IN  /\ pc' = IF r.panicked THEN "panicked" ELSE "idle"
                  /\ result' = IF r.panicked THEN "panic" ELSE "Ok"
                  /\ server_addr_rtp' = r.server_addr_rtp
                  /\ id' = r.id
         [] OTHER ->
              /\ pc' = "idle"
              /\ result' = "Ok"
              /\ UNCHANGED <<server_addr_rtp, id>>
    /\ UNCHANGED <<client_port_rtp, transport, track, method, wire, nwritten, nsends,
                   retries>>
    /\ UNCHANGED rtp_vars

\* try_read_buf returns Ok(0): the peer has closed, the response is empty
ReadEof ==
    /\ sock = <<>>
    /\ sock' = sock
    /\ ReadDone(<<>>, TRUE)

\* what the read of a send can return once the request is written
Read ==
    \/ /\ sock = <<>>
       /\ sock' = sock
       /\ \E response \in Responses(method), closes \in BOOLEAN :
             conn = "open" /\ ReadDone(response, closes)
    \/ ReadEof

\* where TCP may cut a response in two: behind a line end that is not the last
Cuts(response) == {k \in 1..(Len(response) - 1) : response[k] = CRLF}

\* try_read_buf returns the first segment of the response only (Ok(n) ends
\* the loop), the rest arrives in the stream afterwards
ReadPart ==
    \E response \in Responses(method) : \E k \in Cuts(response) :
        /\ conn = "open"
        /\ sock = <<>>
        /\ ReadDone(SubSeq(response, 1, k), FALSE)
        /\ sock' = SubSeq(response, k + 1, Len(response))

\* the stream still holds bytes from before the request was written:
\* try_read_buf returns them at once, the answer to the request comes behind
ReadLeftover ==
    /\ sock # <<>>
    /\ ReadDone(sock, FALSE)
    /\ \E response \in Responses(method) : sock' = response

\* a read loop that a WouldBlock ends
WouldBlock_Breaks ==
    /\ pc = "reading"
    /\ retries < MaxRetries
    /\ retries' = retries + 1
    /\ pc' = "idle"
    /\ result' = "Ok"
    /\ UNCHANGED <<response_ok, server_addr_rtp, client_port_rtp, response_txt, cseq,
                   transport, track, id, method, conn, wire, nwritten, nsends,
                   setup_ok_seen, teardowns, sock>>
    /\ UNCHANGED rtp_vars

\* send: try_read_buf answers WouldBlock after a false readiness event, continue
WouldBlock ==
    /\ pc = "reading"
    /\ retries < MaxRetries
    /\ retries' = retries + 1
    /\ UNCHANGED <<response_ok, server_addr_rtp, client_port_rtp, response_txt, cseq,
                   transport, track, id, pc, method, conn, wire, nwritten, nsends,
                   result, setup_ok_seen, teardowns, sock>>
    /\ UNCHANGED rtp_vars

Send == \E method_in \in Methods : SendWrite(method_in)

\* sessions of fewer sends
SendShort == nsends < MaxSendsShort /\ Send


\* ------------------------------------------------------- RTP depacketizer
NAL_UNIT_START == 12

\* longest datagram received; buf_rtp is kept from NAL_UNIT_START up to it
MaxDatagram == 15

\* a parameter-set start code one zero short
StartCode4_Short == <<0, 0, 1>>

StartCode4 == <<0, 0, 0, 1>>

\* a three-byte start code one zero long
StartCode3_Long == <<0, 0, 0, 1>>

StartCode3 == <<0, 0, 1>>

\* NAL headers (byte 12) and FU headers (byte 13) the camera sends
NalSps == 103
NalPps == 104
NalSei == 6
NalSlice == 97
NalFuA == 124
FuStart == 133
FuMiddle == 5
FuEnd == 69

\* payload byte of the k-th datagram: every datagram carries its own
Pay(k) == 160 + k

\* a datagram: its length and its bytes from offset NAL_UNIT_START on
Datagrams(k) ==
    {[len |-> 14, tail |-> <<h, Pay(k)>>] : h \in {NalSps, NalPps, NalSei, NalSlice}}
    \cup {[len |-> 15, tail |-> <<NalFuA, f, Pay(k)>>] : f \in {FuStart, FuMiddle, FuEnd}}
    \cup {[len |-> 13, tail |-> <<NalFuA>>], [len |-> 8, tail |-> <<>>]}

\* the datagrams of a stream of parameter sets, slices and two-part fragments
StreamDatagrams(k) ==
    {[len |-> 14, tail |-> <<h, Pay(k)>>] : h \in {NalSps, NalPps, NalSlice}}
    \cup {[len |-> 15, tail |-> <<NalFuA, f, Pay(k)>>] : f \in {FuStart, FuEnd}}

\* datagrams whose NAL header carries other nal_ref_idc bits (bits 5 and 6 of
\* byte 12) beside the ones with the usual bits
NriDatagrams(k) ==
    {[len |-> 14, tail |-> <<h, Pay(k)>>] :
        h \in {NalSps, NalSps - 64, NalPps, NalPps - 32, NalSei, NalSei + 32, NalSlice}}
    \cup {[len |-> 15, tail |-> <<h, f, Pay(k)>>] :
             h \in {NalFuA, NalFuA - 32}, f \in {FuStart, FuEnd}}

\* socket.recv(&mut self.buf_rtp): the first len bytes are overwritten
Recv(buf, d) ==
    [i \in DOMAIN buf |-> IF i < d.len THEN d.tail[i - NAL_UNIT_START + 1] ELSE buf[i]]

\* &buf[from..len]; the caller checks from <= len, the slice panics otherwise
Slice(buf, from, len) == [k \in 1..(len - from) |-> buf[from + k - 1]]

\* nal_header & 31
NalType(nal_header) == nal_header % 32

\* *header_frag & 0b01000000 == 64
IsFragEnd(header_frag) == (header_frag \div 64) % 2 = 1

\* header_frag & 0b10000000, the start bit (never read by the code)
IsFragStart(header_frag) == (header_frag \div 128) % 2 = 1

\* (*header_frag & 0b00011111) | 0b01100000
FuNalHeader(header_frag) == (header_frag % 32) + 96

\* a fragment end that puts its own payload before the buffered fragments
FuNal_PayloadFirst(header_frag, fragments, payload) ==
    StartCode3 \o <<FuNalHeader(header_frag)>> \o payload \o fragments

\* the NAL a fragment end packet appends to buf_temp
FuNal(header_frag, fragments, payload) ==
    StartCode3 \o <<FuNalHeader(header_frag)>> \o fragments \o payload

\* a PPS branch taken only while no SPS has been seen
PpsAccepted_Inverted(sps_found) == ~sps_found

\* a PPS branch that forgets to look at is_sps_found
PpsAccepted_NoSpsCheck(sps_found) == TRUE

\* the PPS branch is taken only after an SPS
PpsAccepted(sps_found) == sps_found

\* get_rtp after a successful recv of d, on the fields s of the struct
\* a fragment buffer that an end packet leaves as it was
FragmentsAfterEnd_Kept(fragments) == fragments

\* self.buf_fragments.clear() of the end packet
FragmentsAfterEnd(fragments) == <<>>

\* a fragment buffer restarted by every packet
FragmentsAfter_Restart(fragments, payload) == payload

\* self.buf_fragments.extend_from_slice(&self.buf_rtp[14..len])
FragmentsAfter(fragments, payload) == fragments \o payload

get_rtp(s, d) ==
    LET len == d.len
        buf == Recv(s.buf_rtp, d)
        s0 == [s EXCEPT !.buf_rtp = buf]
        nal_header_type == NalType(buf[NAL_UNIT_START])
        nal_ok == NAL_UNIT_START <= len
        nal == Slice(buf, NAL_UNIT_START, len)
        header_frag == buf[13]
        pay_ok == 14 <= len
        payload == Slice(buf, 14, len)
    IN  CASE nal_header_type = 7 ->
               IF nal_ok
               THEN [s0 EXCEPT !.is_sps_found = TRUE, !.buf_sps = @ \o StartCode4 \o nal]
               ELSE [s0 EXCEPT !.is_sps_found = TRUE, !.buf_sps = @ \o StartCode4,
                               !.panicked = TRUE]
          [] nal_header_type = 8 ->
               IF ~PpsAccepted(s.is_sps_found) THEN s0
               ELSE IF nal_ok
               THEN [s0 EXCEPT !.is_start_decoding = TRUE,
                               !.buf_temp = @ \o s.buf_sps \o StartCode4 \o nal,
                               !.buf_sps = <<>>]
               ELSE [s0 EXCEPT !.is_start_decoding = TRUE,
                               !.buf_temp = @ \o s.buf_sps \o StartCode4,
                               !.panicked = TRUE]
          [] nal_header_type = 6 ->
               IF nal_ok
               THEN [s0 EXCEPT !.buf_temp = @ \o StartCode3 \o nal]
               ELSE [s0 EXCEPT !.buf_temp = @ \o StartCode3, !.panicked = TRUE]
          [] nal_header_type = 28 ->
               IF IsFragEnd(header_frag)
               THEN IF pay_ok
                    THEN [s0 EXCEPT !.is_fragment_start = TRUE, !.is_fragment_end = TRUE,
                                    !.buf_temp = @ \o FuNal(header_frag, s.buf_fragments, payload),
                                    !.buf_fragments = FragmentsAfterEnd(@)]
                    ELSE [s0 EXCEPT !.is_fragment_start = TRUE, !.is_fragment_end = TRUE,
                                    !.buf_temp = @ \o FuNal(header_frag, s.buf_fragments, <<>>),
                                    !.panicked = TRUE]
               ELSE IF pay_ok
                    THEN [s0 EXCEPT !.is_fragment_start = TRUE,
                                    !.buf_fragments = FragmentsAfter(@, payload)]
                    ELSE [s0 EXCEPT !.is_fragment_start = TRUE, !.panicked = TRUE]
          [] OTHER ->
               IF nal_ok
               THEN [s0 EXCEPT !.is_sps_found = FALSE, !.buf_temp = @ \o StartCode3 \o nal]
               ELSE [s0 EXCEPT !.is_sps_found = FALSE, !.buf_temp = @ \o StartCode3,
                               !.panicked = TRUE]

\* get_rtp of the Rtp in lib.rs: the branches are chosen by the whole header
\* byte (103, 104, 6, 124), the work of each branch is the same
get_rtp_lib(s, d) ==
    LET len == d.len
        buf == Recv(s.buf_rtp, d)
        s0 == [s EXCEPT !.buf_rtp = buf]
        header_nal == buf[NAL_UNIT_START]
        nal_ok == NAL_UNIT_START <= len
        nal == Slice(buf, NAL_UNIT_START, len)
        header_frag == buf[13]
        pay_ok == 14 <= len
        payload == Slice(buf, 14, len)
    IN  CASE header_nal = 103 ->
               IF nal_ok
               THEN [s0 EXCEPT !.is_sps_found = TRUE, !.buf_sps = @ \o StartCode4 \o nal]
               ELSE [s0 EXCEPT !.is_sps_found = TRUE, !.buf_sps = @ \o StartCode4,
                               !.panicked = TRUE]
          [] header_nal = 104 ->
               IF ~s.is_sps_found THEN s0
               ELSE IF nal_ok
               THEN [s0 EXCEPT !.is_start_decoding = TRUE,
                               !.buf_temp = @ \o s.buf_sps \o StartCode4 \o nal,
                               !.buf_sps = <<>>]
               ELSE [s0 EXCEPT !.is_start_decoding = TRUE,
                               !.buf_temp = @ \o s.buf_sps \o StartCode4,
                               !.panicked = TRUE]
          [] header_nal = 6 ->
               IF nal_ok
               THEN [s0 EXCEPT !.buf_temp = @ \o <<0, 0, 1>> \o nal]
               ELSE [s0 EXCEPT !.buf_temp = @ \o <<0, 0, 1>>, !.panicked = TRUE]
          [] header_nal = 124 ->
               IF (header_frag \div 64) % 2 = 1
               THEN IF pay_ok
                    THEN [s0 EXCEPT !.is_fragment_start = TRUE, !.is_fragment_end = TRUE,
                                    !.buf_temp = @ \o <<0, 0, 1, (header_frag % 32) + 96>>
                                                   \o s.buf_fragments \o payload,
                                    !.buf_fragments = <<>>]
                    ELSE [s0 EXCEPT !.is_fragment_start = TRUE, !.is_fragment_end = TRUE,
                                    !.buf_temp = @ \o <<0, 0, 1, (header_frag % 32) + 96>>
                                                   \o s.buf_fragments,
                                    !.panicked = TRUE]
               ELSE IF pay_ok
                    THEN [s0 EXCEPT !.is_fragment_start = TRUE,
                                    !.buf_fragments = @ \o payload]
                    ELSE [s0 EXCEPT !.is_fragment_start = TRUE, !.panicked = TRUE]
          [] OTHER ->
               IF nal_ok
               THEN [s0 EXCEPT !.is_sps_found = FALSE, !.buf_temp = @ \o <<0, 0, 1>> \o nal]
               ELSE [s0 EXCEPT !.is_sps_found = FALSE, !.buf_temp = @ \o <<0, 0, 1>>,
                               !.panicked = TRUE]

\* the fields of the struct get_rtp works on
RtpFields ==
    [buf_rtp |-> buf_rtp, buf_temp |-> buf_temp, buf_sps |-> buf_sps,
     buf_fragments |-> buf_fragments, is_sps_found |-> is_sps_found,
     is_start_decoding |-> is_start_decoding, is_fragment_start |-> is_fragment_start,
     is_fragment_end |-> is_fragment_end, panicked |-> FALSE]

\* try_decode returns Ok(None) without decoding
\* a gate that only looks for bytes to decode
DecodeBails_EmptyOnly == Len(buf_temp) = 0

\* a gate that does not look at the fragment flags
DecodeBails_NoFragmentGate ==
    \/ Len(buf_temp) = 0
    \/ ~is_start_decoding

DecodeBails ==
    \/ Len(buf_temp) = 0
    \/ ~is_start_decoding
    \/ (is_fragment_start /\ ~is_fragment_end)

\* the datagram carries a NAL header of the type
IsNal(d, type) == d.len > NAL_UNIT_START /\ NalType(d.tail[1]) = type

InitRtp ==
    /\ decoder = FALSE
    /\ buf_rtp = [i \in NAL_UNIT_START..(MaxDatagram - 1) |-> 0]
    /\ buf_temp = <<>>
    /\ buf_sps = <<>>
    /\ buf_fragments = <<>>
    /\ buf_all = <<>>
    /\ is_sps_found = FALSE
    /\ is_start_decoding = FALSE
    /\ is_fragment_start = FALSE
    /\ is_fragment_end = FALSE
    /\ rtp_pc = "run"
    /\ npackets = 0
    /\ hist = <<>>
    /\ last_op = "none"
    /\ ret = "none"
    /\ decoded = <<>>
    /\ ncalls = 0
    /\ fed_all = <<>>
    /\ seen_sps = FALSE
    /\ seen_sps_pps = FALSE

\* Rtp::connect: the decoder is created and attached
Connect ==
    /\ rtp_pc = "run"
    /\ ~decoder
    /\ decoder' = TRUE
    /\ UNCHANGED <<buf_rtp, buf_temp, buf_sps, buf_fragments, buf_all,
                   is_sps_found, is_start_decoding, is_fragment_start, is_fragment_end,
                   rtp_pc, npackets, hist, last_op, ret, decoded, ncalls, fed_all,
                   seen_sps, seen_sps_pps>>
    /\ UNCHANGED rtsp_vars

\* the last HistLen entries of h
Recent(h) == IF Len(h) > HistLen THEN SubSeq(h, Len(h) - HistLen + 1, Len(h)) ELSE h

\* Rtp::get_rtp receiving the datagram d
GetRtp(d) ==
    /\ rtp_pc = "run"
    /\ LET r == get_rtp(RtpFields, d)
       IN  /\ buf_rtp' = r.buf_rtp
           /\ buf_temp' = r.buf_temp
           /\ buf_sps' = r.buf_sps
           /\ buf_fragments' = r.buf_fragments
           /\ is_sps_found' = r.is_sps_found
           /\ is_start_decoding' = r.is_start_decoding
           /\ is_fragment_start' = r.is_fragment_start
           /\ is_fragment_end' = r.is_fragment_end
           /\ rtp_pc' = IF r.panicked THEN "panicked" ELSE "run"
           /\ ret' = IF r.panicked THEN "panic" ELSE "Ok"
    /\ npackets' = npackets + 1
    /\ hist' = Recent(Append(hist, [d |-> d, armed |-> is_start_decoding,
                                    clean |-> buf_fragments = <<>>]))
    /\ last_op' = "get_rtp"
    /\ seen_sps' = (seen_sps \/ IsNal(d, 7))
    /\ seen_sps_pps' = (seen_sps_pps \/ (seen_sps /\ IsNal(d, 8)))
    /\ UNCHANGED <<decoder, buf_all, decoded, ncalls, fed_all>>
    /\ UNCHANGED rtsp_vars

\* a dump that keeps only the last bytes decoded
DumpAfterDecode_Last(all, cur) == cur

\* self.buf_all.extend_from_slice(self.buf_temp.as_slice())
DumpAfterDecode(all, cur) == all \o cur

\* a failed receive that throws the fragments collected so far away
GetRtpErr_DropsFragments ==
    /\ rtp_pc = "run"
    /\ ret' = "Err"
    /\ last_op' = "get_rtp"
    /\ buf_fragments' = <<>>
    /\ is_fragment_start' = FALSE
    /\ UNCHANGED <<decoder, buf_rtp, buf_temp, buf_sps, buf_all,
                   is_sps_found, is_start_decoding, is_fragment_end,
                   rtp_pc, npackets, hist, decoded, ncalls, fed_all, seen_sps, seen_sps_pps>>
    /\ UNCHANGED rtsp_vars

\* Rtp::get_rtp when socket.recv fails: the ? returns before anything is read
GetRtpErr ==
    /\ rtp_pc = "run"
    /\ ret' = "Err"
    /\ last_op' = "get_rtp"
    /\ UNCHANGED <<decoder, buf_rtp, buf_temp, buf_sps, buf_fragments, buf_all,
                   is_sps_found, is_start_decoding, is_fragment_start, is_fragment_end,
                   rtp_pc, npackets, hist, decoded, ncalls, fed_all, seen_sps, seen_sps_pps>>
    /\ UNCHANGED rtsp_vars

\* a buf_temp that is kept when the decoder answered an error
BufTempAfterDecode_KeptOnErr(buf, decode_ret) == IF decode_ret = "Err" THEN buf ELSE <<>>

\* self.buf_temp.clear(), run whatever the decoder answered
BufTempAfterDecode(buf, decode_ret) == <<>>

\* Rtp::try_decode; outcome is what the decoder answers when it is called
TryDecode(outcome) ==
    /\ rtp_pc = "run"
    /\ last_op' = "try_decode"
    /\ IF DecodeBails
       THEN /\ ret' = "None"
            /\ UNCHANGED <<buf_temp, buf_all, is_fragment_start, is_fragment_end,
                           decoded, ncalls, fed_all>>
       ELSE /\ is_fragment_start' = FALSE
            /\ is_fragment_end' = FALSE
            /\ buf_all' = DumpAfterDecode(buf_all, buf_temp)
            /\ IF decoder
               THEN /\ decoded' = buf_temp
                    /\ ncalls' = ncalls + 1
                    /\ fed_all' = fed_all \o buf_temp
                    /\ ret' = outcome
               ELSE /\ ret' = "Err"
                    /\ UNCHANGED <<decoded, ncalls, fed_all>>
            /\ buf_temp' = BufTempAfterDecode(buf_temp, ret')
    /\ UNCHANGED <<decoder, buf_rtp, buf_sps, buf_fragments, is_sps_found,
                   is_start_decoding, rtp_pc, npackets, hist, seen_sps, seen_sps_pps>>
    /\ UNCHANGED rtsp_vars

Receive == npackets < MaxPackets /\ \E d \in Datagrams(npackets + 1) : GetRtp(d)

\* a stream without SEI and without short datagrams, followed for longer
ReceiveLong ==
    /\ npackets < MaxPacketsLong
    /\ \E d \in StreamDatagrams(npackets + 1) : GetRtp(d)

Decode == \E outcome \in {"Some", "None", "Err"} : TryDecode(outcome)

\* shorter streams, on a socket whose receive can fail
ReceiveShort == npackets < MaxPacketsErr /\ \E d \in Datagrams(npackets + 1) : GetRtp(d)

\* a stream whose NAL headers carry any nal_ref_idc bits
ReceiveNri ==
    /\ npackets < MaxPacketsNri
    /\ \E d \in NriDatagrams(npackets + 1) : GetRtp(d)

\* ---------------------------------------------------------- specifications
Init == InitRtsp /\ InitRtp

NextRtsp == Send \/ Read \/ ReadErr

\* the client on a stream that delivers responses in two segments
NextRtspSplit == SendShort \/ Read \/ ReadErr \/ ReadPart \/ ReadLeftover

\* the client on a socket with false readiness events
NextRtspLive == SendShort \/ Read \/ ReadErr \/ WouldBlock

NextRtp == Connect \/ Receive \/ Decode

\* the depacketizer alone, on a socket whose receive can fail
NextRtpErr == Connect \/ ReceiveShort \/ GetRtpErr \/ Decode

NextRtpNri == Connect \/ ReceiveNri \/ Decode

Next == NextRtsp \/ NextRtp \/ GetRtpErr \/ ReadPart \/ ReadLeftover \/ WouldBlock

\* the client alone, the depacketizer not yet constructed
SpecRtsp == Init /\ [][NextRtsp]_vars

SpecRtspSplit == Init /\ [][NextRtspSplit]_vars

\* what ends the read loop: a socket error, a close of the peer, bytes of
\* the answer (the three are enabled in the same states; the bytes of a SETUP
\* answer end the loop as well and are left to Next)
LoopExit == ReadErr \/ ReadEof \/ (method # "SETUP" /\ Read)

\* the server at last delivers bytes, closes, or the socket reports an error
SpecRtspLive == Init /\ [][NextRtspLive]_vars /\ WF_vars(LoopExit)

\* the depacketizer alone, beside a client left as constructed
InitDepacketizer == Init /\ client_port_rtp = 4588

SpecRtp == InitDepacketizer /\ [][NextRtp]_vars

\* the depacketizer alone, on longer streams of fewer kinds of datagrams
NextRtpLong == Connect \/ ReceiveLong \/ Decode

SpecRtpLong == InitDepacketizer /\ [][NextRtpLong]_vars

SpecRtpErr == InitDepacketizer /\ [][NextRtpErr]_vars

\* the depacketizer on headers with any nal_ref_idc bits
SpecRtpNri == InitDepacketizer /\ [][NextRtpNri]_vars

\* client and depacketizer side by side (the product of the two above)
Spec == Init /\ [][Next]_vars


\* ------------------------------------------------------------------ claims

\* the value of the CSeq header of a written request
WireCSeq(req) ==
    LET ls == SelectSeq(Lines(req), LAMBDA l : Len(l) >= 2 /\ l[1] = "CSeq" /\ l[2] = COLSP)
    IN  SubSeq(ls[1], 3, Len(ls[1]))

\* C1: the CSeq header written on the n-th request is exactly n, starting at 1.
C1_CSeqIsRequestIndex ==
    nwritten > 0 => WireCSeq(wire) = ToDecimal(nwritten)

\* C2: server_addr_rtp is Some only if an earlier SETUP response contained
\* "200 OK"; a SETUP answered without 200 OK never sets it.
C2_AddrOnlyAfterSetupOk ==
    server_addr_rtp # None => setup_ok_seen

\* a send has just ended by reading a response
ResponseRead == pc = "reading" /\ cseq' = cseq + 1

\* C3: a response (at least one byte was read) without "200 OK" sets response_ok to false and leaves the
\* stored Session id and server_addr_rtp as they were, the client still usable.
C3_Non200LeavesState ==
    [][(ResponseRead /\ response_txt' # <<>> /\ ~Contains200(response_txt'))
        => (/\ response_ok' = FALSE
            /\ id' = id
            /\ server_addr_rtp' = server_addr_rtp
            /\ pc' = "idle")]_vars

\* C4: until an SPS and afterwards a PPS have been received, try_decode returns
\* None and the decoder is never invoked, whatever other packets were fed.
C4_NoDecodeBeforeSpsPps ==
    ~seen_sps_pps =>
        /\ ncalls = 0
        /\ fed_all = <<>>
        /\ (last_op = "try_decode" => ret = "None")

C4_Witness ==
    /\ ~seen_sps_pps
    /\ decoder
    /\ npackets >= 3
    /\ last_op = "try_decode"
    /\ Len(buf_temp) > 0
    /\ Len(buf_fragments) > 0
    /\ \E i \in 1..Len(hist) : IsNal(hist[i].d, 8)

\* the k-th datagram before the last one received (k = 0: the last)
Back(h, k) == h[Len(h) - k]

\* entry e is an FU-A datagram with a payload and the given start and end bits
IsFu(e, start, end) ==
    /\ e.d.len >= 14
    /\ IsNal(e.d, 28)
    /\ IsFragStart(e.d.tail[2]) = start
    /\ IsFragEnd(e.d.tail[2]) = end

\* the bytes of a datagram from offset 14 on
FuPayload(e) == SubSeq(e.d.tail, 3, Len(e.d.tail))

\* the last three datagrams are an FU-A run S=1,E=0 / S=0,E=0 / S=0,E=1
RunABC(h) ==
    /\ Len(h) >= 3
    /\ IsFu(Back(h, 2), TRUE, FALSE)
    /\ IsFu(Back(h, 1), FALSE, FALSE)
    /\ IsFu(Back(h, 0), FALSE, TRUE)

\* 00 00 01, (t & 0x1F) | 0x60, A, B, C for the run that ends h
ExpectedNal(h) ==
    StartCode3 \o <<(Back(h, 0).d.tail[2] % 32) + 96>>
    \o FuPayload(Back(h, 2)) \o FuPayload(Back(h, 1)) \o FuPayload(Back(h, 0))

\* get_rtp has just processed a datagram
Received == npackets' = npackets + 1

LostFragment(h) ==
    /\ Len(h) >= 4
    /\ IsFu(Back(h, 3), TRUE, FALSE)
    /\ Back(h, 3).armed
    /\ IsNal(Back(h, 2).d, 1)

\* ... the next SPS/PPS round
ThenRound(h) == IsNal(Back(h, 1).d, 7) /\ IsNal(Back(h, 0).d, 8)

\* ... the next complete fragment
ThenFragment(h) == IsFu(Back(h, 1), TRUE, FALSE) /\ IsFu(Back(h, 0), FALSE, TRUE)

\* C6: after an FU-A start followed by a type 1 packet on an armed
\* depacketizer, once the next complete fragment or the next SPS/PPS round
\* has been received, a try_decode call invokes the decoder again.
C6_DecodeRestored ==
    [][(/\ decoder
        /\ last_op = "get_rtp"
        /\ last_op' = "try_decode"
        /\ LostFragment(hist)
        /\ (ThenRound(hist) \/ ThenFragment(hist)))
       => ncalls' = ncalls + 1]_vars

\* C7: an FU-A datagram shorter than 14 bytes is discarded silently: get_rtp
\* returns Ok, adds nothing to buf_temp or buf_fragments and resets the
\* fragment flags.
C7_ShortFuDiscarded ==
    [][(Received /\ Back(hist', 0).d.len < 14 /\ IsNal(Back(hist', 0).d, 28))
       => (/\ rtp_pc' = "run"
           /\ ret' = "Ok"
           /\ buf_temp' = buf_temp
           /\ buf_fragments' = buf_fragments
           /\ is_fragment_start' = FALSE
           /\ is_fragment_end' = FALSE)]_vars

\* C8: a second TEARDOWN, sent on a session the peer has closed, does not
\* panic and ends with response_ok = false.
C8_SecondTeardown ==
    [][(teardowns >= 1 /\ conn = "closed" /\ teardowns' = teardowns + 1)
       => (pc' # "panicked" /\ response_ok' = FALSE)]_vars

\* SETUP responses with 200 OK that lack server_port, Session or Transport
IncompleteSetupOk == {RespSetupNoServerPort, RespSetupNoSession, RespOk}

\* C9: a SETUP answered 200 OK without server_port (or without Transport or
\* Session) ends with a returned error, and server_addr_rtp stays unset.
C9_IncompleteSetupIsError ==
    [][(ResponseRead /\ method = "SETUP" /\ response_txt' \in IncompleteSetupOk)
       => (/\ result' = "Err"
           /\ pc' = "idle"
           /\ server_addr_rtp' = server_addr_rtp)]_vars

\* C10: after a SETUP answered with "Session: 12345678;timeout=60" the stored
\* session header is exactly "Session: 12345678".
C10_TimeoutDiscarded ==
    (method = "SETUP" /\ pc = "idle" /\ result = "Ok" /\ response_txt = RespSetupTimeout)
        => id = <<"Session", COLSP, "12345678">>

\* ---- C11
\* the first port of the server_port parameter, read off the response text
AnnouncedPort(txt) ==
    LET i == CHOOSE k \in 1..Len(txt) : txt[k] = "server_port"
        j == CHOOSE k \in (i + 2)..Len(txt) :
                 txt[k] = "-" /\ \A m \in (i + 2)..(k - 1) : txt[m] \in DigitSet
    IN  DecimalValue(SubSeq(txt, i + 2, j - 1))

\* C11: a SETUP answered 200 OK whose Transport header carries
\* server_port=Lo-Hi leaves server_addr_rtp at the IP address of the RTSP
\* server, whatever the source= parameter says, with port Lo.
C11_RtpAddrIsServerIpLoPort ==
    [][(ResponseRead /\ method = "SETUP" /\ result' = "Ok" /\ response_ok')
       => server_addr_rtp' = Some([ip |-> server_addr_rtsp.ip,
                                   port |-> AnnouncedPort(response_txt')])]_vars

C11_Witness ==
    /\ pc = "idle" /\ method = "SETUP" /\ result = "Ok" /\ response_ok
    /\ response_txt = RespSetup42
    /\ Contains(response_txt, "10.0.0.9")
    /\ server_addr_rtp = Some([ip |-> "10.0.0.1", port |-> 6970])

\* ---- C12
\* request line, CSeq line, optional Transport and Session lines, each ended
\* by one CRLF, then the blank line
WellFormedRequest(req) ==
    LET ls == SplitOn(req, CRLF)
        n == Len(ls)
    IN  /\ n >= 4
        /\ ls[n] = <<>>
        /\ ls[n - 1] = <<>>
        /\ Len(ls[1]) >= 3
        /\ ls[1][1] \in Methods
        /\ ls[1][2] = " "
        /\ ls[1][Len(ls[1])] = " RTSP/1.0"
        /\ Len(ls[2]) >= 3
        /\ ls[2][1] = "CSeq"
        /\ ls[2][2] = COLSP
        /\ \A i \in 3..(n - 2) :
              /\ Len(ls[i]) >= 3
              /\ ls[i][1] \in {"Transport", "Session"}
              /\ ls[i][2] = COLSP

\* C12: every request send writes, before and after a Session id is stored,
\* is a request line, a CSeq line and the optional Transport and Session
\* lines, each ended by exactly one CRLF, followed by the final blank line.
C12_RequestWellFormed == nwritten > 0 => WellFormedRequest(wire)

\* ---- C13
\* C13: the track suffix and the Transport header appear only in SETUP
\* requests; an OPTIONS, DESCRIBE, PLAY or TEARDOWN request has neither,
\* also directly after a SETUP.
C13_TrackAndTransportOnlyInSetup ==
    (nwritten > 0 /\ wire[1] # "SETUP")
    => (~Contains(wire, "/trackID=0") /\ ~Contains(wire, "Transport"))

\* ---- C14
HasLine(txt, line) == \E i \in 1..Len(Lines(txt)) : Lines(txt)[i] = line

Session42 == <<"Session", COLSP, "42">>

\* C14: with the header Session: 42 captured by a SETUP, a PLAY answered
\* other than 200 OK returns normally with response_ok false and the header
\* kept; the TEARDOWN request written next carries the line Session: 42, and
\* the answer to that TEARDOWN is read without an error or a panic.
C14_TeardownAfterFailedPlay ==
    [][/\ (ResponseRead /\ method = "PLAY" /\ id = Session42
             /\ ~Contains(response_txt', "200 OK"))
          => (~response_ok' /\ id' = id /\ pc' = "idle" /\ result' = "Ok")
       /\ (/\ pc = "idle" /\ method = "PLAY" /\ result = "Ok" /\ ~response_ok
           /\ id = Session42
           /\ method' = "TEARDOWN" /\ nwritten' = nwritten + 1)
          => (wire'[1] = "TEARDOWN" /\ HasLine(wire', Session42))
       /\ (ResponseRead /\ method = "TEARDOWN")
          => (pc' = "idle" /\ result' = "Ok" /\ id' = id)]_vars

C14_Witness ==
    /\ nsends = 3 /\ nwritten = 3
    /\ method = "TEARDOWN" /\ pc = "reading"
    /\ id = Session42 /\ track = <<>> /\ transport = <<>>
    /\ response_txt = RespNotValid /\ ~response_ok
    /\ wire[1] = "TEARDOWN" /\ HasLine(wire, Session42)

\* ---- C15
\* C15: a SETUP sent once a SETUP has stored a session id carries that
\* stored Session header in its request.
C15_SecondSetupCarriesSession ==
    [][(id # <<>> /\ method' = "SETUP" /\ nwritten' = nwritten + 1)
       => (wire'[1] = "SETUP" /\ HasLine(wire', id))]_vars

C15_Witness ==
    /\ nsends >= 2 /\ setup_ok_seen
    /\ method = "SETUP" /\ pc = "reading"
    /\ id = SessionHeader(<<"12345678", ";", "timeout", "=", "6", "0">>)
    /\ wire[1] = "SETUP" /\ HasLine(wire, id)

\* ---- C16
\* s is a run of NAL units, each after a start code: four bytes before a NAL
\* of type 7 or 8 and three bytes before any other
RECURSIVE StartCodesFit(_)
StartCodesFit(s) ==
    IF s = <<>> THEN TRUE
    ELSE LET four == Len(s) >= 5 /\ SubSeq(s, 1, 4) = <<0, 0, 0, 1>>
             three == Len(s) >= 4 /\ SubSeq(s, 1, 3) = <<0, 0, 1>>
             hdr == IF four THEN 5 ELSE 4
             rest == SubSeq(s, hdr + 1, Len(s))
             next == IF \E k \in 1..Len(rest) : rest[k] = 0
                     THEN CHOOSE k \in 1..Len(rest) :
                              rest[k] = 0 /\ \A j \in 1..(k - 1) : rest[j] # 0
                     ELSE Len(rest) + 1
         IN  /\ four \/ three
             /\ (s[hdr] % 32 \in {7, 8}) <=> four
             /\ StartCodesFit(SubSeq(rest, next, Len(rest)))

\* C16: in the bytes handed to the decoder every SPS and every PPS NAL comes
\* after the start code 00 00 00 01 and every other NAL (SEI, slice,
\* reassembled FU-A) after 00 00 01, the first NAL after an SPS/PPS pair
\* included.
C16_StartCodes == StartCodesFit(fed_all)

C16_Witness ==
    /\ ncalls >= 2
    /\ fed_all = <<0, 0, 0, 1, NalSps, Pay(1), 0, 0, 0, 1, NalPps, Pay(2),
                   0, 0, 1, NalSei, Pay(3),
                   0, 0, 1, FuNalHeader(FuStart), Pay(4), Pay(5)>>

\* ---- C17
\* C17: is_start_decoding turns true only in a get_rtp that received a PPS
\* while is_sps_found was set, and no get_rtp or try_decode turns it false.
C17_ArmedOnlyByPpsAfterSpsAndKept ==
    [][/\ (~is_start_decoding /\ is_start_decoding')
          => (Received /\ IsNal(Back(hist', 0).d, 8) /\ is_sps_found)
       /\ is_start_decoding => is_start_decoding']_vars

C17_Witness ==
    /\ is_start_decoding
    /\ Len(hist) >= 4
    /\ IsNal(Back(hist, 3).d, 7) /\ ~Back(hist, 2).armed
    /\ IsNal(Back(hist, 2).d, 8) /\ Back(hist, 1).armed
    /\ IsNal(Back(hist, 0).d, 1)
    /\ ~is_sps_found
    /\ last_op = "try_decode" /\ ncalls >= 2

\* ---- C18
\* the FU-A datagrams hist remembers that carry an FU header
FuSeen(h) == {i \in 1..Len(h) : h[i].d.len >= 14 /\ IsNal(h[i].d, 28)}

LastFuHasEnd(h) ==
    LET i == CHOOSE k \in FuSeen(h) : \A j \in FuSeen(h) : j <= k
    IN  IsFragEnd(h[i].d.tail[2])

\* C18: in every state of a running depacketizer, is_fragment_end implies
\* that the most recently received FU-A packet had its end bit set, and
\* is_fragment_start turns true only when an FU-A packet is received.
C18_FragmentFlagsFollowPackets ==
    [][/\ (rtp_pc' = "run" /\ is_fragment_end' /\ FuSeen(hist') # {})
          => LastFuHasEnd(hist')
       /\ (~is_fragment_start /\ is_fragment_start')
          => (Received /\ IsNal(Back(hist', 0).d, 28))]_vars

\* ---- C19
\* a step of try_decode
TryDecodeCalled == last_op' = "try_decode" /\ decoder' = decoder /\ npackets' = npackets

\* nal_current non-empty, armed, and not inside an unfinished fragment
GateOpen ==
    /\ buf_temp # <<>>
    /\ is_start_decoding
    /\ ~(is_fragment_start /\ ~is_fragment_end)

DecoderInvoked == ncalls' = ncalls + 1

\* C19 as stated: try_decode invokes the decoder exactly when the gate is
\* open, and then leaves nal_current empty and both fragment flags false.
C19_Original ==
    [][TryDecodeCalled
       => /\ DecoderInvoked <=> GateOpen
          /\ DecoderInvoked
             => (buf_temp' = <<>> /\ ~is_fragment_start' /\ ~is_fragment_end')]_vars

\* C19: with a decoder attached try_decode invokes it exactly when the gate
\* is open, and then leaves nal_current empty and both fragment flags false;
\* with no decoder attached an open gate invokes nothing, returns an error
\* and clears nal_current and both flags all the same.
C19_DecodeGate ==
    [][TryDecodeCalled
       => /\ DecoderInvoked <=> (decoder /\ GateOpen)
          /\ DecoderInvoked
             => (buf_temp' = <<>> /\ ~is_fragment_start' /\ ~is_fragment_end'
                 /\ decoded' = buf_temp)
          /\ (GateOpen /\ ~decoder)
             => (ret' = "Err" /\ buf_temp' = <<>>
                 /\ ~is_fragment_start' /\ ~is_fragment_end')
          /\ ~GateOpen
             => (ret' = "None" /\ buf_temp' = buf_temp
                 /\ is_fragment_start' = is_fragment_start
                 /\ is_fragment_end' = is_fragment_end)]_vars

C19_Witness ==
    /\ last_op = "try_decode" /\ decoder /\ ncalls >= 1
    /\ decoded # <<>> /\ buf_temp = <<>>
    /\ ~is_fragment_start /\ ~is_fragment_end
    /\ Len(hist) >= 2
    /\ IsFu(Back(hist, 1), TRUE, FALSE) /\ IsFu(Back(hist, 0), FALSE, TRUE)

\* ---- C20
\* C20: when the decoder answers an error try_decode returns that error and
\* nal_current is cleared all the same, so the packet received next starts
\* from an empty buffer.
C20_ErrStillClears ==
    [][/\ (TryDecodeCalled /\ DecoderInvoked /\ ret' = "Err") => buf_temp' = <<>>
       /\ (Received /\ last_op = "try_decode" /\ ret = "Err") => buf_temp = <<>>]_vars

C20_Witness ==
    /\ last_op = "try_decode" /\ ret = "Err"
    /\ decoder /\ ncalls >= 1
    /\ decoded # <<>> /\ buf_temp = <<>>
    /\ buf_all = fed_all

\* ---- C21
\* a step of get_rtp whose receive failed
RecvFailed == last_op' = "get_rtp" /\ ret' = "Err" /\ decoder' = decoder

\* C21: a get_rtp whose UDP receive fails returns the error and changes
\* none of nal_current, sps_pending, fragment_accum, all_bytes, the four
\* flags or the receive buffer, so the next packet is processed from the
\* state the failed call found.
C21_RecvErrorChangesNothing ==
    [][RecvFailed
       => UNCHANGED <<buf_rtp, buf_temp, buf_sps, buf_fragments, buf_all,
                      is_sps_found, is_start_decoding, is_fragment_start,
                      is_fragment_end, rtp_pc>>]_vars

C21_Witness ==
    /\ last_op = "get_rtp" /\ ret = "Err" /\ rtp_pc = "run"
    /\ npackets >= 3
    /\ is_start_decoding /\ is_fragment_start /\ ~is_fragment_end
    /\ buf_fragments # <<>> /\ buf_all # <<>>

\* ---- C22
\* C22: after a send that failed with a TCP write or read error response_ok
\* is false.
C22_FailedSendClearsOk == (pc = "idle" /\ result = "Err") => ~response_ok

\* ---- C23
\* C23: the CSeq of every request written is larger than the CSeq of the
\* request written before it, also when the send before failed at its read.
C23_WrittenCSeqsIncrease ==
    [][(nwritten > 0 /\ nwritten' = nwritten + 1)
       => DecimalValue(WireCSeq(wire')) > DecimalValue(WireCSeq(wire))]_vars

\* ---- C24
\* the datagrams of the scenario: SPS, PPS, SEI, FU-A start, FU-A end
ScenarioA ==
    <<[len |-> 14, tail |-> <<NalSps, Pay(1)>>],
      [len |-> 14, tail |-> <<NalPps, Pay(2)>>],
      [len |-> 14, tail |-> <<NalSei, Pay(3)>>],
      [len |-> 15, tail |-> <<NalFuA, FuStart, Pay(4)>>],
      [len |-> 15, tail |-> <<NalFuA, FuEnd, Pay(5)>>]>>

\* the k-th packet of the scenario was just received by a connected
\* depacketizer whose decoder was invoked n times, after the packets before
AfterA(k, n) ==
    /\ npackets = k /\ last_op = "get_rtp" /\ rtp_pc = "run"
    /\ decoder /\ ncalls = n
    /\ \A j \in 1..k : (k - j < Len(hist)) => Back(hist, k - j).d = ScenarioA[j]
    /\ n > 0 => (fed_all[5] = NalSps /\ fed_all[6] = Pay(1))

\* C24 as stated: try_decode called after each of SPS, PPS, SEI, FU-A start,
\* FU-A end returns None, None, Some, None, Some.
C24_Original ==
    [][TryDecodeCalled
       => /\ AfterA(1, 0) => ret' = "None"
          /\ AfterA(2, 0) => ret' = "None"
          /\ AfterA(3, 1) => ret' = "Some"
          /\ AfterA(4, 2) => ret' = "None"
          /\ AfterA(5, 2) => ret' = "Some"]_vars

\* C24: after the SPS and after the FU-A start try_decode returns None and
\* invokes no decoder; after the PPS, the SEI and the FU-A end it hands the
\* decoder SPS and PPS, the SEI alone and the reassembled NAL, and returns
\* what the decoder answers.
C24_ScenarioA ==
    [][TryDecodeCalled
       => /\ AfterA(1, 0) => (ret' = "None" /\ ~DecoderInvoked)
          /\ AfterA(2, 0)
             => (DecoderInvoked
                 /\ decoded' = <<0, 0, 0, 1, NalSps, Pay(1), 0, 0, 0, 1, NalPps, Pay(2)>>)
          /\ AfterA(3, 1)
             => (DecoderInvoked /\ decoded' = <<0, 0, 1, NalSei, Pay(3)>>)
          /\ AfterA(4, 2) => (ret' = "None" /\ ~DecoderInvoked)
          /\ AfterA(5, 2)
             => (DecoderInvoked
                 /\ decoded' = <<0, 0, 1, FuNalHeader(FuStart), Pay(4), Pay(5)>>)]_vars

C24_Witness ==
    /\ npackets = 5 /\ ncalls = 3
    /\ last_op = "try_decode" /\ ret = "Some"
    /\ Back(hist, 0).d = ScenarioA[5] /\ Back(hist, 1).d = ScenarioA[4]
    /\ Back(hist, 2).d = ScenarioA[3] /\ Back(hist, 3).d = ScenarioA[2]
    /\ decoded = <<0, 0, 1, FuNalHeader(FuStart), Pay(4), Pay(5)>>
    /\ Len(fed_all) = 23 /\ fed_all[5] = NalSps

\* ---- C25
\* the datagram just received is a PPS
PpsReceived == Received /\ IsNal(Back(hist', 0).d, 8)

\* C25: a PPS received while is_sps_found is false changes no buffer and no
\* flag and get_rtp returns Ok; the bytes of a PPS that came first never
\* reach the decoder; a PPS received while is_sps_found is true arms decoding.
C25_LonePpsDropped ==
    [][/\ (PpsReceived /\ ~is_sps_found)
          => (/\ UNCHANGED <<buf_temp, buf_sps, buf_fragments, buf_all, is_sps_found,
                             is_start_decoding, is_fragment_start, is_fragment_end>>
              /\ ret' = "Ok")
       /\ (Len(hist') = npackets' /\ npackets' >= 1 /\ IsNal(hist'[1].d, 8))
          => (~Contains(fed_all', Pay(1)) /\ ~Contains(buf_all', Pay(1))
              /\ ~Contains(buf_temp', Pay(1)))
       /\ (PpsReceived /\ is_sps_found) => is_start_decoding']_vars

\* PPS, SPS, PPS, slice, and the decoder called
C25_Witness ==
    /\ npackets = 4 /\ Len(hist) = 4
    /\ IsNal(hist[1].d, 8) /\ IsNal(hist[2].d, 7)
    /\ IsNal(hist[3].d, 8) /\ IsNal(hist[4].d, 1)
    /\ ~hist[3].armed /\ hist[4].armed
    /\ last_op = "try_decode" /\ ncalls >= 1
    /\ fed_all = <<0, 0, 0, 1, NalSps, Pay(2), 0, 0, 0, 1, NalPps, Pay(3),
                   0, 0, 1, NalSlice, Pay(4)>>

\* ---- C26
IsSuffix(s, t) == Len(s) <= Len(t) /\ SubSeq(t, Len(t) - Len(s) + 1, Len(t)) = s

\* C26 as stated: buf_all is the concatenation of the byte sequences passed
\* to the decoder.
C26_Original == buf_all = fed_all

\* C26: the bytes passed to the decoder are the end of buf_all, and once a
\* decoder is attached every call appends the same bytes to both; buf_all
\* holds more only where try_decode passed its gate with no decoder attached.
C26_DumpHoldsDecoderInput ==
    [][/\ IsSuffix(fed_all', buf_all')
       /\ decoder => (Len(buf_all') - Len(buf_all) = Len(fed_all') - Len(fed_all))
       /\ (buf_all' # buf_all) => (TryDecodeCalled /\ GateOpen)]_vars

C26_Witness ==
    /\ decoder /\ ncalls >= 2 /\ npackets >= 3
    /\ last_op = "get_rtp" /\ buf_temp # <<>>
    /\ buf_all = fed_all /\ Len(buf_all) > 12

\* ---- C27
\* no blank line (CRLF CRLF) in s
NoBlankLine(s) == \A i \in 1..(Len(s) - 1) : ~(s[i] = CRLF /\ s[i + 1] = CRLF)

\* the lines written one after the other, each ended by CRLF
RECURSIVE JoinLines(_)
JoinLines(ls) == IF ls = <<>> THEN <<>> ELSE ls[1] \o <<CRLF>> \o JoinLines(Tail(ls))

\* a DESCRIBE response was read and parsed
DescribeParsed == method = "DESCRIBE" /\ pc = "idle" /\ result = "Ok"

\* C27: a DESCRIBE response of headers, a blank line and SDP lines is split
\* at its first CRLF CRLF: the headers end before the first blank line, the
\* rest is the SDP, and the SDP lines are all kept, in order.
C27_DescribeSplit ==
    DescribeParsed =>
        LET parts == SplitOnceBlank(response_txt)[1]
            fields == sdp_fields(response_txt)
        IN  /\ parts[1] \o <<CRLF, CRLF>> \o parts[2] = response_txt
            /\ NoBlankLine(parts[1] \o <<CRLF>>)
            /\ parts[2] \in {JoinLines(fields),
                             SubSeq(JoinLines(fields), 1, Len(JoinLines(fields)) - 1)}
            /\ response_txt = RespDescribeOk
               => fields = <<<<"v=0">>, <<"m=video 0 RTP/AVP 96">>, <<>>,
                             <<"a=control", ":", "trackID=0">>>>

C27_Witness ==
    /\ DescribeParsed /\ response_ok
    /\ response_txt = RespDescribeOk
    /\ Len(sdp_fields(response_txt)) = 4

\* ---- C28
\* C28: a request is written only from the idle client, which then reads;
\* nothing is written while a read is pending; cseq changes only at the
\* end of a read that returned (zero bytes included), by exactly one.
C28_Serialized ==
    [][/\ (nwritten' = nwritten + 1) => (pc = "idle" /\ pc' = "reading" /\ cseq' = cseq)
       /\ (pc = "reading") => (nwritten' = nwritten /\ wire' = wire /\ pc' # "reading")
       /\ (cseq' # cseq) => (pc = "reading" /\ cseq' = cseq + 1)
       /\ (pc = "reading" /\ result' # "Err") => cseq' = cseq + 1]_vars

C28_Witness ==
    /\ pc = "idle" /\ result = "Ok"
    /\ nsends = 2 /\ nwritten = 2 /\ cseq = 3
    /\ response_txt = <<>> /\ conn = "closed"

\* ---- C29
\* the datagram just received is an SPS
SpsReceived == Received /\ IsNal(Back(hist', 0).d, 7)

\* C29: after an SPS packet is received buf_sps holds exactly 00 00 00 01
\* followed by the NAL bytes of that packet, whatever came before.
C29_SpsPendingIsLastSps ==
    [][SpsReceived => buf_sps' = <<0, 0, 0, 1>> \o Back(hist', 0).d.tail]_vars

\* ---- C30
\* the datagram just received is an FU-A packet without the end bit
NonEndFuReceived ==
    /\ Received
    /\ Back(hist', 0).d.len >= 14
    /\ IsNal(Back(hist', 0).d, 28)
    /\ ~IsFragEnd(Back(hist', 0).d.tail[2])

\* C30: an FU-A packet without the end bit, whatever its start bit, appends
\* its bytes [14..len] to buf_fragments and sets is_fragment_start; buf_temp,
\* buf_sps, buf_all, is_sps_found and is_start_decoding stay as they were.
C30_NonEndFragmentFrame ==
    [][NonEndFuReceived
       => /\ buf_fragments' = buf_fragments \o FuPayload(Back(hist', 0))
          /\ is_fragment_start'
          /\ ret' = "Ok"
          /\ UNCHANGED <<buf_temp, buf_sps, buf_all, is_sps_found, is_start_decoding>>]_vars

C30_Witness ==
    /\ npackets = 4 /\ last_op = "get_rtp" /\ ret = "Ok"
    /\ IsFu(Back(hist, 1), TRUE, FALSE) /\ IsFu(Back(hist, 0), FALSE, FALSE)
    /\ buf_fragments = <<Pay(3), Pay(4)>>
    /\ is_fragment_start /\ ~is_fragment_end
    /\ is_start_decoding /\ buf_temp # <<>>

\* ---- C31
\* the datagram just received is an FU-A packet with the end bit set
EndFuReceived ==
    /\ Received
    /\ Back(hist', 0).d.len >= 14
    /\ IsNal(Back(hist', 0).d, 28)
    /\ IsFragEnd(Back(hist', 0).d.tail[2])

\* C31: right after get_rtp has processed an FU-A packet with the end bit
\* set buf_fragments is empty, and the NAL it emitted is the last thing in
\* buf_temp: what was collected, then the bytes of the end packet.
C31_FragmentsEmptyAfterEnd ==
    [][EndFuReceived
       => /\ buf_fragments' = <<>>
          /\ ret' = "Ok"
          /\ IsSuffix(buf_fragments \o FuPayload(Back(hist', 0)), buf_temp')]_vars

\* two reassembled NALs in a row, the second without a byte of the first
C31_Witness ==
    /\ npackets = 4 /\ Len(hist) = 4 /\ last_op = "get_rtp"
    /\ IsFu(hist[1], TRUE, FALSE) /\ IsFu(hist[2], FALSE, TRUE)
    /\ IsFu(hist[3], TRUE, FALSE) /\ IsFu(hist[4], FALSE, TRUE)
    /\ buf_fragments = <<>>
    /\ buf_temp = <<0, 0, 1, FuNalHeader(FuStart), Pay(1), Pay(2),
                    0, 0, 1, FuNalHeader(FuStart), Pay(3), Pay(4)>>

\* ---- C32
\* the places in s where a NAL ends: a payload byte (Pay(k) of the k-th
\* packet received) followed by a start code or by nothing
NalEnds(s) == {i \in 1..Len(s) : s[i] > Pay(0) /\ (i = Len(s) \/ s[i + 1] = 0)}

\* C32: the NALs handed to the decoder are in the order in which their
\* packets (for a fragmented NAL, its end packet) were received.
C32_DecoderOrderIsReceiveOrder ==
    \A i, j \in NalEnds(fed_all) : i < j => fed_all[i] < fed_all[j]

\* ---- C33
\* C33: buf_temp of a running depacketizer collects nothing while
\* is_start_decoding is false, and
\* the first bytes ever passed to the decoder are 00 00 00 01 and an SPS.
C33_NothingBeforeArmed ==
    /\ (rtp_pc = "run" /\ ~is_start_decoding) => buf_temp = <<>>
    /\ ncalls >= 1
       => (Len(fed_all) >= 5 /\ SubSeq(fed_all, 1, 4) = <<0, 0, 0, 1>>
           /\ NalType(fed_all[5]) = 7)

\* ---- C34
IsPrefix(s, t) == Len(s) <= Len(t) /\ SubSeq(t, 1, Len(s)) = s

\* what a server can answer to a request of the method (nothing: it closed)
Answers(m) == Responses(m) \cup {<<>>}

\* C34: when a send has read its response, the response_txt it records is
\* (the part read of) an answer of the server to the request of this very
\* send, and response_ok tells whether that answer is a 200 OK, also when the
\* answer reaches the client split over several TCP reads: no bytes of the
\* answer to an earlier request are taken for it.
C34_ResponseBelongsToRequest ==
    [][(pc = "reading" /\ pc' # "reading" /\ result' # "Err")
       => \E r \in Answers(method) :
             IsPrefix(response_txt', r) /\ (response_ok' <=> Contains200(r))]_vars

C36_LibEquivalent ==
    [][Received
       => LET r == get_rtp_lib(RtpFields, Back(hist', 0).d)
          IN  /\ buf_rtp' = r.buf_rtp
              /\ buf_temp' = r.buf_temp
              /\ buf_sps' = r.buf_sps
              /\ buf_fragments' = r.buf_fragments
              /\ is_sps_found' = r.is_sps_found
              /\ is_start_decoding' = r.is_start_decoding
              /\ is_fragment_start' = r.is_fragment_start
              /\ is_fragment_end' = r.is_fragment_end
              /\ (rtp_pc' = "panicked") = r.panicked]_vars

\* ---- C37
\* C37: a try_decode that bails out (nal_current empty, or not armed, or a
\* fragment run started and not completed) returns None and changes nothing:
\* nal_current, fragment_accum, sps_pending, all_bytes and the four flags are
\* as before, and no decoder is invoked.
C37_BailChangesNothing ==
    [][(TryDecodeCalled /\ ~GateOpen)
       => /\ ret' = "None"
          /\ ~DecoderInvoked
          /\ UNCHANGED <<buf_temp, buf_fragments, buf_sps, buf_all, buf_rtp,
                         is_sps_found, is_start_decoding, is_fragment_start,
                         is_fragment_end, rtp_pc>>]_vars

\* try_decode has bailed out in the middle of a fragment run, armed and with
\* bytes waiting in nal_current
C37_Witness ==
    /\ last_op = "try_decode" /\ ret = "None"
    /\ is_start_decoding /\ is_fragment_start /\ ~is_fragment_end
    /\ buf_temp = StartCode4 \o <<NalSps, Pay(1)>> \o StartCode4 \o <<NalPps, Pay(2)>>
    /\ buf_fragments = <<Pay(3)>>
    /\ buf_all = <<>>
    /\ ncalls = 0

\* ---- C38
\* a line of the text holds a ':' and no ": "
ColonNoSpaceLine(txt) ==
    \E i \in 1..Len(Lines(txt)) :
        Contains(Lines(txt)[i], ":") /\ ~Contains(Lines(txt)[i], COLSP)

\* C38: parse_setup completes without panicking on every SETUP response, one
\* with a header line that holds a ':' but no ": " included: send(SETUP)
\* does not panic on reading such a response.
C38_ColonWithoutSpace ==
    [][(ResponseRead /\ method = "SETUP" /\ ColonNoSpaceLine(response_txt'))
       => pc' # "panicked"]_vars

\* ---- C39
\* send(SETUP) has run up to its write
SetupSent == pc = "idle" /\ method' = "SETUP" /\ nsends' = nsends + 1

\* C39: for every client RTP port P, the largest u16 included, send(SETUP)
\* does not panic and builds "Transport: RTP/AVP/UDP;unicast;client_port=P-Q"
\* with Q the number P + 1, never a wrapped value, and that header is in the
\* request it writes.
C39_ClientPortRange ==
    [][SetupSent
       => /\ pc' # "panicked"
          /\ transport' = TransportHeader(client_port_rtp, client_port_rtp + 1)
          /\ (nwritten' = nwritten + 1
              => wire' = Request("SETUP", TrackSetup, cseq,
                                 TransportHeader(client_port_rtp, client_port_rtp + 1),
                                 id))]_vars

====
